---- MODULE Spec2Model ----
(***************************************************************************)
(* Conversation and negotiation messaging flow of the marketplace client:  *)
(* the tables and policies of supabase/migrations, ProductPage.tsx         *)
(* (contact seller, propose a price), NegotiationsTab.tsx (accept/reject)  *)
(* and ChatInterface.tsx (send, mention, realtime subscription).           *)
(***************************************************************************)
EXTENDS Integers, Sequences, FiniteSets, Bags, TLC

(* ------------------------------ bounds -------------------------------- *)
MaxNegotiations == 2
MaxActions == 2
MaxContacts == 3
MaxMessages == 2
MaxPriceLen == 2
MaxFetches == 2
MaxMarks == 1
MaxEnsures == 2
MaxLookups == 1
MaxReviews == 2
MaxOrders == 2

(* ----------------------------- the world ------------------------------ *)
\* auth.users: u1 sells p1, u2 sells p2
Users == {"u1", "u2"}
NoUser == "none"
\* products: p1 has a seller, p0 is a seeded product without seller_id
Products == {"p0", "p1", "p2"}
ProductSeller(p) == IF p = "p1" THEN "u1" ELSE IF p = "p2" THEN "u2" ELSE NoUser

\* characters a price field can hold in this model
PriceChars == {"-", "0", "5", "."}
Digits == {"0", "5"}
DigitValue(c) == IF c = "5" THEN 5 ELSE 0

VARIABLES
  negotiations,            \* table public.negotiations (id = index)
  conversations,           \* table public.conversations (id = index)
  conversation_messages,   \* table public.conversation_messages (id = index)
  tabNegotiations,         \* NegotiationsTab state `negotiations`, per seller
  actions,                 \* handleNegotiationAction invocations
  contacts,                \* handleContactSeller invocations
  proposal,                \* the last handleNegotiation invocation
  chat,                    \* ChatInterface of the observing user
  notif,                   \* NotificationProvider of one browser
  profiles,                \* table public.profiles (id = index)
  ensures,                 \* ensureUserProfile invocations
  names,                   \* getUserDisplayName invocations
  reviews,                 \* table public.reviews (id = index)
  reviewSection,           \* ReviewSection of the observing user
  orders,                  \* table public.orders (id = index)
  order_items,             \* table public.order_items
  checkout                 \* CheckoutPage and the cart of its user

storeVars == <<negotiations, conversations, conversation_messages>>
tabVars == <<tabNegotiations, actions>>
profileVars == <<profiles, ensures>>
pageVars == <<names, reviews, reviewSection, orders, order_items, checkout>>
vars == <<negotiations, conversations, conversation_messages,
          tabNegotiations, actions, contacts, proposal, chat, notif, profiles, ensures,
          names, reviews, reviewSection, orders, order_items, checkout>>

\* DEFAULT now(): the store's clock advances with every inserted row
now == 1 + Len(negotiations) + Len(conversations) + Len(conversation_messages)

(* ------------------------- sequences, helpers ------------------------- *)
RECURSIVE Pow10(_)
Pow10(n) == IF n = 0 THEN 1 ELSE 10 * Pow10(n - 1)

RECURSIVE StringsUpTo(_)
StringsUpTo(n) ==
  IF n = 0 THEN {<<>>}
  ELSE LET shorter == StringsUpTo(n - 1)
       IN  shorter \cup {Append(s, c) : s \in {t \in shorter : Len(t) = n - 1}, c \in PriceChars}

(* ------------------- parseFloat over the price field ------------------ *)
\* number of leading characters of s, from position i, that are digits
RECURSIVE DigitRun(_, _)
DigitRun(s, i) ==
  IF i <= Len(s) /\ s[i] \in Digits THEN 1 + DigitRun(s, i + 1) ELSE 0

\* value of the digits s[i..i+n-1] read as a decimal integer
RECURSIVE DigitsValue(_, _, _)
DigitsValue(s, i, n) ==
  IF n = 0 THEN 0
  ELSE 10 * DigitsValue(s, i, n - 1) + DigitValue(s[i + n - 1])

NaN == [nan |-> TRUE, neg |-> FALSE, mant |-> 0, frac |-> 0]

\* JavaScript parseFloat: the longest prefix that is a decimal literal,
\* NaN when there is none.  The value is (neg ? -1 : 1) * mant / 10^frac.
parseFloat(s) ==
  LET neg   == Len(s) >= 1 /\ s[1] = "-"
      start == IF neg THEN 2 ELSE 1
      k     == DigitRun(s, start)
      dot   == start + k <= Len(s) /\ s[start + k] = "."
      m     == IF dot THEN DigitRun(s, start + k + 1) ELSE 0
      int   == DigitsValue(s, start, k)
      fracv == DigitsValue(s, start + k + 1, m)
  IN  IF k = 0 /\ m = 0 THEN NaN
      ELSE [nan |-> FALSE, neg |-> neg, mant |-> int * Pow10(m) + fracv, frac |-> m]

\* x <= 0 on a parseFloat result (NaN compares false, -0 <= 0 is true)
LtZero(x) == ~x.nan /\ x.neg /\ x.mant > 0
LeqZero(x) == ~x.nan /\ (x.neg \/ x.mant = 0)

\* column DECIMAL(10,2): the value in hundredths, rounded half away from zero
ToDecimal2(x) ==
  LET h == (2 * 100 * x.mant + Pow10(x.frac)) \div (2 * Pow10(x.frac))
  IN  IF x.neg THEN 0 - h ELSE h

(* --------------------------- the store -------------------------------- *)
\* RLS "Users can view their conversations"
CanViewConversation(uid, c) == uid = c.buyer_id \/ uid = c.seller_id

\* UNIQUE(buyer_id, seller_id, product_id)
ConversationUniqueDropped(b, s, p) == TRUE
ConversationUnique(b, s, p) ==
  \A i \in 1..Len(conversations) :
    ~(conversations[i].buyer_id = b /\ conversations[i].seller_id = s
      /\ conversations[i].product_id = p)

\* insert into conversations: RLS WITH CHECK, then the uniqueness constraint
CanInsertConversation(uid, b, s, p) ==
  /\ (uid = b \/ uid = s)
  /\ ConversationUnique(b, s, p)

NewConversation(b, s, p) ==
  [buyer_id |-> b, seller_id |-> s, product_id |-> p,
   last_message_at |-> now, created_at |-> now]

\* RLS "Users can create messages in their conversations"
CanInsertMessage(uid, cid, sender) ==
  /\ cid \in 1..Len(conversations)
  /\ CanViewConversation(uid, conversations[cid])
  /\ uid = sender

NewMessage(cid, sender, body, type) ==
  [conversation_id |-> cid, sender_id |-> sender, message |-> body,
   message_type |-> type, is_read |-> FALSE, created_at |-> now]

\* trigger update_conversation_last_message, AFTER INSERT FOR EACH ROW
update_conversation_last_message_dropped(convs, new) == convs
update_conversation_last_message(convs, new) ==
  [i \in 1..Len(convs) |->
     IF i = new.conversation_id
     THEN [convs[i] EXCEPT !.last_message_at = new.created_at]
     ELSE convs[i]]

\* the change feed: the open chat's channel, filtered on its conversation_id,
\* gets the id of the inserted row
Publish(ch, id, new) ==
  IF ch.conversationId = new.conversation_id
  THEN [ch EXCEPT !.events = Append(@, id)]
  ELSE ch

\* a fetchNotifications call that has not been answered yet
NewFetch(u) == [user |-> u, phase |-> "messages", messages |-> {}]

\* the channels 'message-notifications' and 'negotiation-notifications': a
\* change of a row the signed-in user may select runs fetchNotifications()
NotifyGuard(n, visible) ==
  (n.user # NoUser /\ visible) => BagCardinality(n.fetches) < MaxFetches
Notify(n, visible) ==
  IF n.user # NoUser /\ visible
  THEN [n EXCEPT !.fetches = @ (+) SetToBag({NewFetch(n.user)})]
  ELSE n

\* insert into conversation_messages with its trigger, one transaction; the
\* committed row goes to the change feed.  ch is the chat after the caller's
\* own state updates.
InsertMessage(cid, sender, body, type, ch) ==
  LET new == NewMessage(cid, sender, body, type)
      visible == CanViewConversation(notif.user, conversations[cid])
  IN  /\ NotifyGuard(notif, visible)
      /\ conversation_messages' = Append(conversation_messages, new)
      /\ conversations' = update_conversation_last_message(conversations, new)
      /\ chat' = Publish(ch, Len(conversation_messages) + 1, new)
      /\ notif' = Notify(notif, visible)

\* ids of the conversations a select ... eq(buyer_id).eq(product_id) returns
ConversationsByBuyerProduct(uid, b, p) ==
  {i \in 1..Len(conversations) :
     /\ CanViewConversation(uid, conversations[i])
     /\ conversations[i].buyer_id = b
     /\ conversations[i].product_id = p}

\* ... eq(buyer_id).eq(seller_id).eq(product_id)
ConversationsByTriple(uid, b, s, p) ==
  {i \in ConversationsByBuyerProduct(uid, b, p) : conversations[i].seller_id = s}

\* .single(): the row when exactly one matches, null (0) otherwise
Single(ids) == IF Cardinality(ids) = 1 THEN CHOOSE i \in ids : TRUE ELSE 0

(* ------------------------ ProductPage.tsx ----------------------------- *)
ReplaceAt(s, i, v) == [s EXCEPT ![i] = v]

\* handleContactSeller, up to the first await
ContactSeller(u, p) ==
  /\ Len(contacts) < MaxContacts
  /\ contacts' = Append(contacts,
       IF ProductSeller(p) = NoUser
       THEN [user |-> u, product |-> p, pc |-> "done", toast |-> "no seller", conversation |-> 0]
       ELSE IF u = ProductSeller(p)
       THEN [user |-> u, product |-> p, pc |-> "done", toast |-> "can't contact yourself", conversation |-> 0]
       ELSE [user |-> u, product |-> p, pc |-> "lookup", toast |-> "none", conversation |-> 0])
  /\ UNCHANGED <<storeVars, tabVars, proposal, chat, notif, profileVars, pageVars>>

\* handleContactSeller: "Check if conversation already exists"
ContactLookup(i, fault) ==
  /\ i \in 1..Len(contacts)
  /\ contacts[i].pc = "lookup"
  /\ LET t == contacts[i]
         existingConv == IF fault THEN 0
                         ELSE Single(ConversationsByTriple(t.user, t.user, ProductSeller(t.product), t.product))
     IN  contacts' = ReplaceAt(contacts, i,
           IF existingConv # 0
           THEN [t EXCEPT !.pc = "done", !.conversation = existingConv]
           ELSE [t EXCEPT !.pc = "insert"])
  /\ UNCHANGED <<storeVars, tabVars, proposal, chat, notif, profileVars, pageVars>>

\* handleContactSeller: "Create new conversation" and the toasts after it
ContactInsert(i, fault) ==
  /\ i \in 1..Len(contacts)
  /\ contacts[i].pc = "insert"
  /\ LET t == contacts[i]
         s == ProductSeller(t.product)
     IN  IF ~fault /\ CanInsertConversation(t.user, t.user, s, t.product)
         THEN /\ conversations' = Append(conversations, NewConversation(t.user, s, t.product))
              /\ contacts' = ReplaceAt(contacts, i,
                   [t EXCEPT !.pc = "done", !.toast = "Conversation started",
                             !.conversation = Len(conversations) + 1])
         ELSE /\ contacts' = ReplaceAt(contacts, i,
                   [t EXCEPT !.pc = "done", !.toast = "Failed to start conversation"])
              /\ UNCHANGED conversations
  /\ UNCHANGED <<negotiations, conversation_messages, tabVars, proposal, chat, notif, profileVars, pageVars>>

\* RLS "Users can view their negotiations"
CanViewNegotiation(uid, n) == uid = n.buyer_id \/ uid = n.seller_id

NewNegotiation(u, p, price) ==
  [product_id |-> p, buyer_id |-> u, seller_id |-> ProductSeller(p),
   proposed_price |-> ToDecimal2(price), status |-> "pending", created_at |-> now]

\* handleNegotiation; the single insert it awaits is answered in the same step
handleNegotiation(u, p, proposedPrice, fault) ==
  LET price == parseFloat(proposedPrice)
      done(toast, issued) ==
        proposal' = [user |-> u, product |-> p, proposedPrice |-> proposedPrice,
                     toast |-> toast, issued |-> issued]
      visible == CanViewNegotiation(notif.user, NewNegotiation(u, p, price))
  IN  /\ IF ProductSeller(p) = NoUser
         THEN /\ done("no seller", FALSE)
              /\ UNCHANGED <<negotiations, notif>>
         ELSE IF proposedPrice = <<>> \/ LeqZero(price)
         THEN /\ done("Please enter a valid price", FALSE)
              /\ UNCHANGED <<negotiations, notif>>
         ELSE IF fault \/ price.nan   \* proposed_price is NOT NULL, NaN is sent as null
         THEN /\ done("Failed to submit negotiation", TRUE)
              /\ UNCHANGED <<negotiations, notif>>
         ELSE /\ Len(negotiations) < MaxNegotiations
              /\ NotifyGuard(notif, visible)
              /\ negotiations' = Append(negotiations, NewNegotiation(u, p, price))
              /\ notif' = Notify(notif, visible)
              /\ done("Negotiation submitted", TRUE)
      /\ UNCHANGED <<conversations, conversation_messages, tabVars, contacts, chat, profileVars, pageVars>>

(* ----------------------- NegotiationsTab.tsx -------------------------- *)
\* what fetchNegotiations selects for seller u: id and status of each row
Snapshot(u) ==
  {[id |-> i, status |-> negotiations[i].status] :
     i \in {j \in 1..Len(negotiations) : negotiations[j].seller_id = u}}

\* the list after fetchNegotiations: replaced by the rows selected, kept when
\* the select fails
Fetched(u, fault) ==
  IF fault THEN tabNegotiations ELSE [tabNegotiations EXCEPT ![u] = Snapshot(u)]

\* fetchNegotiations on mount or reload
fetchNegotiations(u, fault) ==
  /\ tabNegotiations' = Fetched(u, fault)
  /\ UNCHANGED <<storeVars, actions, contacts, proposal, chat, notif, profileVars, pageVars>>

\* a click on Accept or Reject: the buttons are rendered for the entries whose
\* local status is 'pending'
handleNegotiationAction(u, negotiationId, action) ==
  /\ Len(actions) < MaxActions
  /\ \E n \in tabNegotiations[u] : n.id = negotiationId /\ n.status = "pending"
  /\ actions' = Append(actions,
       [user |-> u, negotiationId |-> negotiationId, action |-> action,
        pc |-> "update", conversation |-> 0, message |-> 0, toast |-> "none"])
  /\ UNCHANGED <<storeVars, tabNegotiations, contacts, proposal, chat, notif, profileVars, pageVars>>

\* RLS "Users can update their negotiations"
CanUpdateNegotiation(uid, n) == uid = n.buyer_id \/ uid = n.seller_id

StatusOf(action) == IF action = "accept" THEN "accepted" ELSE "rejected"

\* update({status}).eq('id', negotiationId)
UpdateStatus(uid, id, status) ==
  [i \in 1..Len(negotiations) |->
     IF i = id /\ CanUpdateNegotiation(uid, negotiations[i])
     THEN [negotiations[i] EXCEPT !.status = status]
     ELSE negotiations[i]]

\* handleNegotiationAction: the status update and its error branch
ActionUpdate(i, fault) ==
  /\ i \in 1..Len(actions)
  /\ actions[i].pc = "update"
  /\ LET t == actions[i]
     IN  IF fault
         THEN /\ actions' = ReplaceAt(actions, i,
                   [t EXCEPT !.pc = "done", !.toast = "Failed to update negotiation"])
              /\ UNCHANGED <<negotiations, notif>>
         ELSE LET n == negotiations[t.negotiationId]
                  visible == CanUpdateNegotiation(t.user, n) /\ CanViewNegotiation(notif.user, n)
              IN  /\ NotifyGuard(notif, visible)
                  /\ negotiations' = UpdateStatus(t.user, t.negotiationId, StatusOf(t.action))
                  /\ notif' = Notify(notif, visible)
                  /\ actions' = ReplaceAt(actions, i, [t EXCEPT !.pc = "lookup"])
  /\ UNCHANGED <<conversations, conversation_messages, tabNegotiations,
                 contacts, proposal, chat, profileVars, pageVars>>

\* handleNegotiationAction: select the conversation by buyer_id and product_id
ActionLookup(i, fault) ==
  /\ i \in 1..Len(actions)
  /\ actions[i].pc = "lookup"
  /\ LET t == actions[i]
         n == negotiations[t.negotiationId]
         conversation == IF fault THEN 0
                         ELSE Single(ConversationsByBuyerProduct(t.user, n.buyer_id, n.product_id))
     IN  actions' = ReplaceAt(actions, i,
           IF conversation # 0
           THEN [t EXCEPT !.pc = "insert", !.conversation = conversation]
           ELSE [t EXCEPT !.pc = "create"])
  /\ UNCHANGED <<storeVars, tabNegotiations, contacts, proposal, chat, notif, profileVars, pageVars>>

\* the tail of handleNegotiationAction: toast.success and fetchNegotiations()
Finish(i, t, fetchFault) ==
  /\ actions' = ReplaceAt(actions, i, [t EXCEPT !.pc = "done", !.toast = "Buyer has been notified"])
  /\ tabNegotiations' = Fetched(t.user, fetchFault)

\* handleNegotiationAction: "Create a new conversation if none exists"
ActionCreate(i, fault, fetchFault) ==
  /\ i \in 1..Len(actions)
  /\ actions[i].pc = "create"
  /\ LET t == actions[i]
         n == negotiations[t.negotiationId]
     IN  IF ~fault /\ CanInsertConversation(t.user, n.buyer_id, t.user, n.product_id)
         THEN /\ conversations' = Append(conversations, NewConversation(n.buyer_id, t.user, n.product_id))
              /\ actions' = ReplaceAt(actions, i,
                   [t EXCEPT !.pc = "insert", !.conversation = Len(conversations) + 1])
              /\ UNCHANGED tabNegotiations
         ELSE /\ Finish(i, t, fetchFault)   \* newConversation is null: no message
              /\ UNCHANGED conversations
  /\ UNCHANGED <<negotiations, conversation_messages, contacts, proposal, chat, notif, profileVars, pageVars>>

\* the text of the notice, built from the negotiation and the action
notificationMessage(t) == <<StatusOf(t.action), t.negotiationId>>

\* handleNegotiationAction: insert the system message (its error is not read)
ActionInsert(i, fault, fetchFault) ==
  /\ i \in 1..Len(actions)
  /\ actions[i].pc = "insert"
  /\ LET t == actions[i]
     IN  IF ~fault /\ CanInsertMessage(t.user, t.conversation, t.user)
         THEN /\ Len(conversation_messages) < MaxMessages
              /\ InsertMessage(t.conversation, t.user, notificationMessage(t), "system", chat)
              /\ Finish(i, [t EXCEPT !.message = Len(conversation_messages) + 1], fetchFault)
         ELSE /\ Finish(i, t, fetchFault)
              /\ UNCHANGED <<conversations, conversation_messages, chat, notif>>
  /\ UNCHANGED <<negotiations, contacts, proposal, profileVars, pageVars>>

(* ------------------------- ChatInterface.tsx -------------------------- *)
\* what the message input can hold in this model
Drafts == {<<>>, <<" ">>, <<"h">>, <<"h", " ">>}

\* String.prototype.trim
RECURSIVE TrimLeft(_)
TrimLeft(s) == IF s # <<>> /\ Head(s) = " " THEN TrimLeft(Tail(s)) ELSE s
RECURSIVE TrimRight(_)
TrimRight(s) ==
  IF s # <<>> /\ s[Len(s)] = " " THEN TrimRight(SubSeq(s, 1, Len(s) - 1)) ELSE s
trimNothing(s) == s
trim(s) == TrimRight(TrimLeft(s))

\* a ChatInterface that is not rendered (ChatsPage has no conversation selected)
Unmounted(u) ==
  [user |-> u, conversationId |-> 0, messages |-> <<>>, events |-> <<>>,
   handlers |-> {}, fetches |-> {}, newMessage |-> <<>>, loading |-> FALSE,
   pending |-> <<>>, toast |-> "none"]

\* the rows of conversation c a participant can select, in created_at order
MessagesOf(uid, c) ==
  LET ids == {i \in 1..Len(conversation_messages) :
                /\ conversation_messages[i].conversation_id = c
                /\ c \in 1..Len(conversations)
                /\ CanViewConversation(uid, conversations[c])}
      RECURSIVE Sorted(_)
      Sorted(S) == IF S = {} THEN <<>>
                   ELSE LET m == CHOOSE x \in S : \A y \in S : x <= y
                        IN  <<m>> \o Sorted(S \ {m})
  IN  Sorted(ids)

\* ChatsPage: a conversation of the list is clicked.  The effect on
\* [conversationId] cleans up the previous channel, calls fetchMessages and
\* subscribes; the component and its state stay when it was already rendered.
SelectConversation(c) ==
  /\ c \in 1..Len(conversations)
  /\ CanViewConversation(chat.user, conversations[c])
  /\ c # chat.conversationId
  /\ chat' = [chat EXCEPT !.conversationId = c,
                          !.events = <<>>,
                          !.fetches = @ \cup {[conversationId |-> c, served |-> FALSE, data |-> <<>>]}]
  /\ UNCHANGED <<storeVars, tabVars, contacts, proposal, notif, profileVars, pageVars>>

\* onBack: ChatsPage renders no ChatInterface; the cleanup removes the channel
\* and the component's state is gone (the toast shown last is not its state)
onBack ==
  /\ chat.conversationId # 0
  /\ chat' = [Unmounted(chat.user) EXCEPT !.toast = chat.toast]
  /\ UNCHANGED <<storeVars, tabVars, contacts, proposal, notif, profileVars, pageVars>>

\* fetchMessages: the store answers the select
FetchServe(f, fault) ==
  /\ f \in chat.fetches
  /\ ~f.served
  /\ chat' = [chat EXCEPT !.fetches = (@ \ {f}) \cup
                 (IF fault THEN {}
                  ELSE {[f EXCEPT !.served = TRUE, !.data = MessagesOf(chat.user, f.conversationId)]})]
  /\ UNCHANGED <<storeVars, tabVars, contacts, proposal, notif, profileVars, pageVars>>

\* fetchMessages: the names are resolved, setMessages(messagesWithNames)
setMessages(f) ==
  /\ f \in chat.fetches
  /\ f.served
  /\ chat' = [chat EXCEPT !.fetches = @ \ {f}, !.messages = f.data]
  /\ UNCHANGED <<storeVars, tabVars, contacts, proposal, notif, profileVars, pageVars>>

\* the channel delivers the next inserted row; the callback starts and awaits
\* getUserDisplayName
OnInsert ==
  /\ chat.events # <<>>
  /\ chat' = [chat EXCEPT !.events = Tail(@), !.handlers = @ \cup {Head(chat.events)}]
  /\ UNCHANGED <<storeVars, tabVars, contacts, proposal, notif, profileVars, pageVars>>

\* the handlers that may resume next: any whose name lookup has returned
Resumable(handlers) == handlers

\* the callback resumes: setMessages(prev => [...prev, newMsg])
OnInsertResume(m) ==
  /\ m \in Resumable(chat.handlers)
  /\ chat' = [chat EXCEPT !.handlers = @ \ {m}, !.messages = Append(@, m)]
  /\ UNCHANGED <<storeVars, tabVars, contacts, proposal, notif, profileVars, pageVars>>

\* the input's onChange; the input is disabled while loading
setNewMessage(text) ==
  /\ chat.conversationId # 0
  /\ ~chat.loading
  /\ chat' = [chat EXCEPT !.newMessage = text]
  /\ UNCHANGED <<storeVars, tabVars, contacts, proposal, notif, profileVars, pageVars>>

\* sendMessage up to its first await (getUserDisplayName)
sendMessage ==
  /\ chat.conversationId # 0
  /\ ~chat.loading
  /\ trim(chat.newMessage) # <<>>
  /\ chat' = [chat EXCEPT !.loading = TRUE,
                          !.pending = <<[conversation_id |-> chat.conversationId,
                                         message |-> trim(chat.newMessage),
                                         message_type |-> "text"]>>]
  /\ UNCHANGED <<storeVars, tabVars, contacts, proposal, notif, profileVars, pageVars>>

\* the products of the other participant, as fetchSellerProducts lists them
OtherUser(uid, c) == IF c.buyer_id = uid THEN c.seller_id ELSE c.buyer_id
sellerProducts(uid, c) == {p \in Products : ProductSeller(p) = OtherUser(uid, c)}

\* JSON texts are sequences of tokens: braces, colon, comma, null, the number 5 and
\* string literals (written in quotes); any other token is no JSON
StringTokens ==
  {"'type'", "'product_mention'", "'product'", "'id'", "'name'", "'price'", "'image_url'",
   "'p0'", "'p1'", "'p2'", "'n'", "'x'"}

\* a JSON value: null, undefined, a number, a string or an object with its
\* members in order
JValue(kind, v, members) == [kind |-> kind, v |-> v, members |-> members]

\* the id of product p as a string literal
Quoted(p) == IF p = "p1" THEN "'p1'" ELSE IF p = "p2" THEN "'p2'" ELSE "'p0'"

\* mentionProduct: const productMessage = { type, product: { id, name, price, image_url } }
productMessage(p) ==
  JValue("obj", "", <<
    [key |-> "'type'", val |-> JValue("str", "'product_mention'", <<>>)],
    [key |-> "'product'", val |-> JValue("obj", "", <<
       [key |-> "'id'", val |-> JValue("str", Quoted(p), <<>>)],
       [key |-> "'name'", val |-> JValue("str", "'n'", <<>>)],
       [key |-> "'price'", val |-> JValue("num", "5", <<>>)],
       [key |-> "'image_url'", val |-> JValue("null", "", <<>>)]>>)]>>)

\* JSON.stringify
RECURSIVE stringify(_)
stringify(val) ==
  IF val.kind = "obj"
  THEN LET RECURSIVE Members(_)
           Members(k) ==
             IF k > Len(val.members) THEN <<>>
             ELSE (IF k > 1 THEN <<",">> ELSE <<>>)
                  \o <<val.members[k].key, ":">> \o stringify(val.members[k].val) \o Members(k + 1)
       IN  <<"{">> \o Members(1) \o <<"}">>
  ELSE IF val.kind = "null" THEN <<"null">>
  ELSE <<val.v>>

\* JSON.parse, by recursive descent from token i: the value read and the
\* position behind it, or ok = FALSE for a SyntaxError
RECURSIVE ParseValue(_, _)
RECURSIVE ParseMembers(_, _, _)
ParseMembers(toks, i, acc) ==
  LET fail == [ok |-> FALSE, val |-> JValue("null", "", <<>>), next |-> 0]
  IN  IF i + 1 <= Len(toks) /\ toks[i] \in StringTokens /\ toks[i + 1] = ":"
      THEN LET r == ParseValue(toks, i + 2)
               members == Append(acc, [key |-> toks[i], val |-> r.val])
           IN  IF ~r.ok \/ r.next > Len(toks) THEN fail
               ELSE IF toks[r.next] = "}"
               THEN [ok |-> TRUE, val |-> JValue("obj", "", members), next |-> r.next + 1]
               ELSE IF toks[r.next] = "," THEN ParseMembers(toks, r.next + 1, members)
               ELSE fail
      ELSE fail
ParseValue(toks, i) ==
  LET fail == [ok |-> FALSE, val |-> JValue("null", "", <<>>), next |-> 0]
      atom(kind, v) == [ok |-> TRUE, val |-> JValue(kind, v, <<>>), next |-> i + 1]
  IN  IF i > Len(toks) THEN fail
      ELSE IF toks[i] = "null" THEN atom("null", "")
      ELSE IF toks[i] = "5" THEN atom("num", toks[i])
      ELSE IF toks[i] \in StringTokens THEN atom("str", toks[i])
      ELSE IF toks[i] = "{"
      THEN IF i + 1 <= Len(toks) /\ toks[i + 1] = "}"
           THEN [ok |-> TRUE, val |-> JValue("obj", "", <<>>), next |-> i + 2]
           ELSE ParseMembers(toks, i + 1, <<>>)
      ELSE fail

\* parseProductMessage: try { return JSON.parse(message) } catch { return null }
parseProductMessage(message) ==
  LET r == ParseValue(message, 1)
  IN  IF r.ok /\ r.next = Len(message) + 1 THEN r.val ELSE JValue("null", "", <<>>)

\* value.key: the member written last under that key, undefined without one
\* and on a number or a string
Get(val, key) ==
  LET ks == {k \in 1..Len(val.members) : val.members[k].key = key}
  IN  IF ks = {} THEN JValue("undefined", "", <<>>)
      ELSE val.members[CHOOSE k \in ks : \A l \in ks : l <= k].val

\* the truthiness of a value (no token of the model is 0 or the empty string)
Truthy(val) == val.kind \notin {"null", "undefined"}

\* renderMessage: the product card when the body parses to a tagged object
\* with a product, the bubble with the raw text otherwise.  React throws when
\* an object is given as a child, as {product.name} and {product.price} are.
renderMessage(message) ==
  LET productData == parseProductMessage(message.message)
      product == Get(productData, "'product'")
      type == Get(productData, "'type'")
  IN  IF /\ message.message_type = "product_mention"
         /\ Truthy(productData)
         /\ type.kind = "str" /\ type.v = "'product_mention'"
         /\ Truthy(product)
      THEN IF Get(product, "'name'").kind = "obj" \/ Get(product, "'price'").kind = "obj"
           THEN [kind |-> "throws", text |-> <<>>]
           ELSE [kind |-> "card", text |-> <<>>]
      ELSE [kind |-> "raw", text |-> message.message]

\* mentionProduct up to its first await (the profile select)
mentionProduct(p) ==
  /\ chat.conversationId # 0
  /\ ~chat.loading
  /\ p \in sellerProducts(chat.user, conversations[chat.conversationId])
  /\ chat' = [chat EXCEPT !.loading = TRUE,
                          !.pending = <<[conversation_id |-> chat.conversationId,
                                         message |-> stringify(productMessage(p)),
                                         message_type |-> "product_mention"]>>]
  /\ UNCHANGED <<storeVars, tabVars, contacts, proposal, notif, profileVars, pageVars>>

\* bodies a participant can store through the API beside the client's own:
\* texts that are no JSON,
Unparseable ==
  {<<>>, <<"x">>, <<"{">>, <<"{", "'type'", "}">>,
   <<"{", "'type'", ":", "'product_mention'">>,
   <<"{", "'type'", ":", "'product_mention'", "}", "}">>}
\* JSON without the type tag 'product_mention' or without a product,
NotAMention ==
  {<<"null">>, <<"5">>, <<"'x'">>, <<"{", "}">>,
   <<"{", "'product'", ":", "{", "}", "}">>,
   <<"{", "'type'", ":", "'x'", ",", "'product'", ":", "{", "}", "}">>,
   <<"{", "'type'", ":", "'product_mention'", "}">>,
   <<"{", "'type'", ":", "'product_mention'", ",", "'product'", ":", "null", "}">>}
\* and tagged JSON with a product that is not what mentionProduct writes
OddProduct ==
  {<<"{", "'type'", ":", "'product_mention'", ",", "'product'", ":", "{", "}", "}">>,
   <<"{", "'type'", ":", "'product_mention'", ",", "'product'", ":", "'x'", "}">>,
   <<"{", "'type'", ":", "'product_mention'", ",", "'product'", ":",
     "{", "'name'", ":", "{", "}", "}", "}">>}
ApiBodies == Unparseable \cup NotAMention \cup OddProduct

\* an insert into conversation_messages sent with the session of u, not by
\* the chat component: the policies and the column types decide, and
\* message and message_type are free text
apiInsert(u, c, body, type) ==
  /\ Len(conversation_messages) < MaxMessages
  /\ CanInsertMessage(u, c, u)
  /\ InsertMessage(c, u, body, type, chat)
  /\ UNCHANGED <<negotiations, tabVars, contacts, proposal, profileVars, pageVars>>

\* sendMessage and mentionProduct: the insert and what follows it.  toast is
\* "Failed to send message" when the call that ended last was a sendMessage
\* whose insert failed, "none" after any other outcome.
SendInsert(fault) ==
  /\ chat.pending # <<>>
  /\ LET row == chat.pending[1]
         ok == ~fault /\ CanInsertMessage(chat.user, row.conversation_id, chat.user)
         after == [chat EXCEPT !.loading = FALSE, !.pending = <<>>,
                               !.newMessage = IF ok /\ row.message_type = "text" THEN <<>> ELSE @,
                               !.toast = IF row.message_type = "text" /\ ~ok
                                         THEN "Failed to send message" ELSE "none"]
     IN  IF ok
         THEN /\ Len(conversation_messages) < MaxMessages
              /\ InsertMessage(row.conversation_id, chat.user, row.message, row.message_type, after)
         ELSE /\ chat' = after
              /\ UNCHANGED <<conversations, conversation_messages, notif>>
  /\ UNCHANGED <<negotiations, tabVars, contacts, proposal, profileVars, pageVars>>

(* ---------------------- NotificationContext --------------------------- *)
\* the provider while nobody is signed in: an empty list, no channels.
\* marks are the mark calls awaiting their update, lastMark the call made last.
NoMark == [id |-> <<"none", 0>>, user |-> NoUser, rows |-> {}]
SignedOut ==
  [user |-> NoUser, notifications |-> <<>>, fetches |-> EmptyBag,
   marks |-> {}, lastMark |-> NoMark]

\* RLS "Users can view messages from their conversations"
CanViewMessage(uid, m) ==
  /\ m.conversation_id \in 1..Len(conversations)
  /\ CanViewConversation(uid, conversations[m.conversation_id])

\* from('conversation_messages').select(...).eq('is_read', false).neq('sender_id', user.id)
UnreadMessagesAllSenders(uid, u) ==
  {i \in 1..Len(conversation_messages) :
     /\ CanViewMessage(uid, conversation_messages[i])
     /\ ~conversation_messages[i].is_read}
UnreadMessages(uid, u) ==
  {i \in 1..Len(conversation_messages) :
     /\ CanViewMessage(uid, conversation_messages[i])
     /\ ~conversation_messages[i].is_read
     /\ conversation_messages[i].sender_id # u}

\* from('negotiations').select(...).eq('status', 'pending').eq('seller_id', user.id)
PendingNegotiations(uid, u) ==
  {i \in 1..Len(negotiations) :
     /\ CanViewNegotiation(uid, negotiations[i])
     /\ negotiations[i].status = "pending"
     /\ negotiations[i].seller_id = u}

\* the ids of a set in ascending order, as the rows come back
RECURSIVE Ascending(_)
Ascending(S) ==
  IF S = {} THEN <<>>
  ELSE LET m == CHOOSE x \in S : \A y \in S : x <= y
       IN  <<m>> \o Ascending(S \ {m})

\* "Process messages": one entry per row whose conversation has the user as
\* buyer or seller
MessageEntries(u, ids) ==
  LET rows == Ascending({i \in ids :
                 \/ conversations[conversation_messages[i].conversation_id].buyer_id = u
                 \/ conversations[conversation_messages[i].conversation_id].seller_id = u})
  IN  [k \in 1..Len(rows) |->
         LET msg == conversation_messages[rows[k]]
         IN  [id |-> <<"msg", rows[k]>>,
              type |-> IF msg.message_type = "system" THEN "negotiation" ELSE "message",
              isRead |-> FALSE,       \* msg.is_read of a row selected with is_read = false
              createdAt |-> msg.created_at]]

\* "Process negotiations (for sellers)"
NegotiationEntries(ids) ==
  LET rows == Ascending(ids)
  IN  [k \in 1..Len(rows) |->
         [id |-> <<"neg", rows[k]>>, type |-> "negotiation", isRead |-> FALSE,
          createdAt |-> negotiations[rows[k]].created_at]]

\* Array.prototype.sort with (a, b) => b.createdAt - a.createdAt: stable,
\* an entry goes behind the entries that do not sort after it
SortsBeforeAscending(a, b) == a.createdAt <= b.createdAt
SortsBefore(a, b) == a.createdAt >= b.createdAt
RECURSIVE sort(_)
sort(list) ==
  IF list = <<>> THEN <<>>
  ELSE LET e == list[Len(list)]
           head == sort(SubSeq(list, 1, Len(list) - 1))
           k == Cardinality({i \in 1..Len(head) : SortsBefore(head[i], e)})
       IN  SubSeq(head, 1, k) \o <<e>> \o SubSeq(head, k + 1, Len(head))

\* const unreadCount = notifications.filter(n => !n.isRead).length
IsUnread(n) == ~n.isRead
unreadCount == Len(SelectSeq(notif.notifications, IsUnread))

\* the effect on [user]: sign-in runs fetchNotifications and subscribes
signIn(u) ==
  /\ notif.user = NoUser
  /\ BagCardinality(notif.fetches) < MaxFetches
  /\ notif' = [notif EXCEPT !.user = u, !.fetches = @ (+) SetToBag({NewFetch(u)})]
  /\ UNCHANGED <<storeVars, tabVars, contacts, proposal, chat, profileVars, pageVars>>

\* ... and its cleanup on sign-out removes the channels; the list and the
\* calls in flight stay
signOut ==
  /\ notif.user # NoUser
  /\ notif' = [notif EXCEPT !.user = NoUser]
  /\ UNCHANGED <<storeVars, tabVars, contacts, proposal, chat, profileVars, pageVars>>

\* fetchNotifications: the select of the unread messages, sent with the
\* session of the call, is answered (an error is not read: no rows)
FetchMessages(f, fault) ==
  /\ BagIn(f, notif.fetches)
  /\ f.phase = "messages"
  /\ LET served == [f EXCEPT !.phase = "negotiations",
                            !.messages = IF fault THEN {} ELSE UnreadMessages(f.user, f.user)]
     IN  notif' = [notif EXCEPT !.fetches = (@ (-) SetToBag({f})) (+) SetToBag({served})]
  /\ UNCHANGED <<storeVars, tabVars, contacts, proposal, chat, profileVars, pageVars>>

\* fetchNotifications: the select of the pending negotiations is sent with
\* the session of that moment and answered; the list is built, sorted and set
FetchNegotiations(f, fault) ==
  /\ BagIn(f, notif.fetches)
  /\ f.phase = "negotiations"
  /\ LET negs == IF fault THEN {} ELSE PendingNegotiations(notif.user, f.user)
         notificationList == MessageEntries(f.user, f.messages) \o NegotiationEntries(negs)
     IN  notif' = [notif EXCEPT !.fetches = @ (-) SetToBag({f}),
                                !.notifications = sort(notificationList)]
  /\ UNCHANGED <<storeVars, tabVars, contacts, proposal, chat, profileVars, pageVars>>

\* RLS "Users can update their own messages"
CanUpdateMessage(uid, m) == uid = m.sender_id

\* the rows of `ids` an update of uid reaches through the policy
Updatable(uid, ids) ==
  {i \in ids \cap (1..Len(conversation_messages)) :
     CanUpdateMessage(uid, conversation_messages[i])}

\* update({ is_read: true }) on the rows of `ids`
MarkReadToggle(uid, ids) ==
  [i \in 1..Len(conversation_messages) |->
     IF i \in Updatable(uid, ids)
     THEN [conversation_messages[i] EXCEPT !.is_read = ~@]
     ELSE conversation_messages[i]]
MarkRead(uid, ids) ==
  [i \in 1..Len(conversation_messages) |->
     IF i \in Updatable(uid, ids)
     THEN [conversation_messages[i] EXCEPT !.is_read = TRUE]
     ELSE conversation_messages[i]]

\* an update reached a row the signed-in user may select: the provider's
\* message channel gets the change
UpdateVisible(n, uid, ids) ==
  \E i \in Updatable(uid, ids) : CanViewMessage(n.user, conversation_messages[i])

\* a mark call awaiting the answer of its update: the entry clicked, or
\* AllEntries for 'Mark all read', and the rows the update named
AllEntries == <<"all", 0>>
NewMark(id, ids) == [id |-> id, user |-> notif.user, rows |-> ids]

\* the update of a mark call is sent and applied
MarkUpdate(id, ids) ==
  LET marked == [notif EXCEPT !.marks = @ \cup {NewMark(id, ids)},
                              !.lastMark = NewMark(id, ids)]
      visible == UpdateVisible(notif, notif.user, ids)
  IN  /\ Cardinality(marked.marks) <= MaxMarks
      /\ NotifyGuard(marked, visible)
      /\ conversation_messages' = MarkRead(notif.user, ids)
      /\ notif' = Notify(marked, visible)

\* handleNotificationClick -> markAsRead(id), up to the answer of its update
markAsRead(k) ==
  /\ notif.user # NoUser
  /\ k \in 1..Len(notif.notifications)
  /\ LET id == notif.notifications[k].id
     IN  MarkUpdate(id, IF id[1] = "msg" THEN {id[2]} ELSE {})
  /\ UNCHANGED <<negotiations, conversations, tabVars, contacts, proposal, chat, profileVars, pageVars>>

\* the rows markAllAsRead's update names: .neq('sender_id', user.id)
NotSentByAnyone(u) == 1..Len(conversation_messages)
NotSentBy(u) == {i \in 1..Len(conversation_messages) : conversation_messages[i].sender_id # u}

\* markAllAsRead, up to the answer of its update; the button is rendered while
\* unreadCount > 0
markAllAsRead ==
  /\ notif.user # NoUser
  /\ unreadCount > 0
  /\ MarkUpdate(AllEntries, NotSentBy(notif.user))
  /\ UNCHANGED <<negotiations, conversations, tabVars, contacts, proposal, chat, profileVars, pageVars>>

\* markAsRead and markAllAsRead after the await:
\* setNotifications(prev => prev.map(...)) sets isRead on the entry, or on all
MarkSet(m) ==
  /\ m \in notif.marks
  /\ notif' = [notif EXCEPT
       !.marks = @ \ {m},
       !.notifications = [k \in 1..Len(@) |->
          IF m.id = AllEntries \/ @[k].id = m.id THEN [@[k] EXCEPT !.isRead = TRUE] ELSE @[k]]]
  /\ UNCHANGED <<storeVars, tabVars, contacts, proposal, chat, profileVars, pageVars>>

(* --------------------------- profileUtils ----------------------------- *)
\* auth.users.email
Email(u) == IF u = "u1" THEN <<"a", ".", "b", "@", "x">> ELSE <<"b", "@", "x">>
NoEmail == <<>>

\* String.prototype.split(sep)[0]: the text before the first separator
RECURSIVE SplitFirst(_, _)
SplitFirst(s, sep) ==
  IF s = <<>> \/ Head(s) = sep THEN <<>>
  ELSE <<Head(s)>> \o SplitFirst(Tail(s), sep)

\* auth.users.id, a text longer than the 8 characters a placeholder shows
Uuid(u) ==
  IF u = "u1" THEN <<"1", "1", "1", "1", "1", "1", "1", "1", "-", "a">>
  ELSE <<"2", "2", "2", "2", "2", "2", "2", "2", "-", "b">>

\* String.prototype.slice(0, n)
slice(s, n) == SubSeq(s, 1, IF n < Len(s) THEN n ELSE Len(s))

\* `User ${userId.slice(0, 8)}`
Placeholder(userId) == <<"U", "s", "e", "r", " ">> \o slice(Uuid(userId), 8)

\* userEmail ? userEmail.split('@')[0] : `User ${userId.slice(0, 8)}`
displayName(userId, userEmail) ==
  IF userEmail # NoEmail THEN SplitFirst(userEmail, "@") ELSE Placeholder(userId)

\* profiles.user_id is UNIQUE
ProfileUniqueDropped(u) == TRUE
ProfileUnique(u) == \A i \in 1..Len(profiles) : profiles[i].user_id # u

\* select('id').eq('user_id', userId) under "Users can view their own profile"
ProfilesOf(uid, u) == {i \in 1..Len(profiles) : profiles[i].user_id = u /\ uid = u}

\* the effect of ChatInterface on [messages, user] calls ensureUserProfile
ensureUserProfile(u) ==
  /\ chat.user = u
  /\ chat.conversationId # 0
  /\ Len(ensures) < MaxEnsures
  /\ ensures' = Append(ensures, [user |-> u, email |-> Email(u), pc |-> "select", outcome |-> "none"])
  /\ UNCHANGED <<storeVars, tabVars, contacts, proposal, chat, notif, profiles, pageVars>>

\* ensureUserProfile: "Check if profile exists"
EnsureSelect(i, fault) ==
  /\ i \in 1..Len(ensures)
  /\ ensures[i].pc = "select"
  /\ LET t == ensures[i]
         existingProfile == IF fault THEN 0 ELSE Single(ProfilesOf(t.user, t.user))
     IN  ensures' = ReplaceAt(ensures, i,
           IF existingProfile # 0
           THEN [t EXCEPT !.pc = "done", !.outcome = "exists"]
           ELSE [t EXCEPT !.pc = "insert"])
  /\ UNCHANGED <<storeVars, tabVars, contacts, proposal, chat, notif, profiles, pageVars>>

\* ensureUserProfile: "Create profile if it doesn't exist"; an error is logged
EnsureInsert(i, fault) ==
  /\ i \in 1..Len(ensures)
  /\ ensures[i].pc = "insert"
  /\ LET t == ensures[i]
     IN  IF ~fault /\ ProfileUnique(t.user)
         THEN /\ profiles' = Append(profiles,
                   [user_id |-> t.user, email |-> t.email,
                    full_name |-> displayName(t.user, t.email)])
              /\ ensures' = ReplaceAt(ensures, i, [t EXCEPT !.pc = "done", !.outcome = "created"])
         ELSE /\ ensures' = ReplaceAt(ensures, i, [t EXCEPT !.pc = "done", !.outcome = "logged"])
              /\ UNCHANGED profiles
  /\ UNCHANGED <<storeVars, tabVars, contacts, proposal, chat, notif, pageVars>>

\* what the name field of ProfilePage can hold in this model
FullNames == {<<>>, <<"z">>}

\* ProfilePage.handleSave: upsert(profileData) without id inserts a row, which
\* profiles.user_id UNIQUE refuses when the user has one
handleSave(u, fullName) ==
  /\ ProfileUnique(u)
  /\ profiles' = Append(profiles, [user_id |-> u, email |-> Email(u), full_name |-> fullName])
  /\ UNCHANGED <<storeVars, tabVars, contacts, proposal, chat, notif, ensures, pageVars>>

\* getUserDisplayName after its select: profile is the row returned (0 for
\* null); full_name when it is truthy, else the email's first part, else the
\* placeholder
resolveEmailFirst(profile, userId) ==
  IF profile # 0 /\ profiles[profile].email # NoEmail
  THEN SplitFirst(profiles[profile].email, "@")
  ELSE IF profile # 0 /\ profiles[profile].full_name # <<>> THEN profiles[profile].full_name
  ELSE Placeholder(userId)
resolve(profile, userId) ==
  IF profile # 0 /\ profiles[profile].full_name # <<>> THEN profiles[profile].full_name
  ELSE IF profile # 0 /\ profiles[profile].email # NoEmail
  THEN SplitFirst(profiles[profile].email, "@")
  ELSE Placeholder(userId)

\* getUserDisplayName(userId), called with the session of `caller`, up to its
\* select
getUserDisplayName(caller, userId) ==
  /\ Len(names) < MaxLookups
  /\ names' = Append(names, [caller |-> caller, userId |-> userId, pc |-> "select",
                              profile |-> 0, result |-> <<>>])
  /\ UNCHANGED <<storeVars, tabVars, contacts, proposal, chat, notif, profileVars,
                 reviews, reviewSection, orders, order_items, checkout>>

\* getUserDisplayName: select('full_name, email').eq('user_id', userId).single()
\* is answered (an error is not read: profile is null) and the name returned
NameSelect(i, fault) ==
  /\ i \in 1..Len(names)
  /\ names[i].pc = "select"
  /\ LET t == names[i]
         profile == IF fault THEN 0 ELSE Single(ProfilesOf(t.caller, t.userId))
     IN  names' = ReplaceAt(names, i,
           [t EXCEPT !.pc = "done", !.profile = profile, !.result = resolve(profile, t.userId)])
  /\ UNCHANGED <<storeVars, tabVars, contacts, proposal, chat, notif, profileVars,
                 reviews, reviewSection, orders, order_items, checkout>>

(* -------------------------- ReviewSection ----------------------------- *)
\* from('reviews').select('*').eq('product_id', productId) under "Anyone can
\* view reviews": the ids of the rows
ReviewsOf(productId) == {i \in 1..Len(reviews) : reviews[i].product_id = productId}

\* UNIQUE(product_id, user_id)
ReviewUnique(productId, u) ==
  \A i \in 1..Len(reviews) : ~(reviews[i].product_id = productId /\ reviews[i].user_id = u)

\* the section while fetchReviews() is called for productId: setLoading(true)
\* and the select is sent
Fetching(section, productId) ==
  [section EXCEPT !.loading = TRUE,
                  !.fetches = @ \cup {[productId |-> productId, served |-> FALSE, data |-> {}]}]

\* the parent renders the section with another productId: the effect on
\* [productId] calls fetchReviews(); the component and its state stay
setProductId(productId) ==
  /\ productId # reviewSection.productId
  /\ Cardinality(reviewSection.fetches) < MaxFetches
  /\ reviewSection' = Fetching([reviewSection EXCEPT !.productId = productId], productId)
  /\ UNCHANGED <<storeVars, tabVars, contacts, proposal, chat, notif, profileVars,
                 names, reviews, orders, order_items, checkout>>

\* fetchReviews: the select is answered; an error ends the call
ReviewsServe(f, fault) ==
  /\ f \in reviewSection.fetches
  /\ ~f.served
  /\ reviewSection' =
       IF fault
       THEN [reviewSection EXCEPT !.fetches = @ \ {f}, !.loading = FALSE,
                                  !.toast = "Failed to load reviews"]
       ELSE [reviewSection EXCEPT !.fetches = (@ \ {f}) \cup
               {[f EXCEPT !.served = TRUE, !.data = ReviewsOf(f.productId)]}]
  /\ UNCHANGED <<storeVars, tabVars, contacts, proposal, chat, notif, profileVars,
                 names, reviews, orders, order_items, checkout>>

\* fetchReviews after the names are resolved: setReviews, then userReview,
\* rating and comment are set when the user has a review among the rows, and
\* left as they are when not; setLoading(false)
setReviews(f) ==
  /\ f \in reviewSection.fetches
  /\ f.served
  /\ LET own == {i \in f.data : reviews[i].user_id = reviewSection.user}
         currentUserReview == IF own = {} THEN 0 ELSE CHOOSE i \in own : TRUE
     IN  reviewSection' =
           [reviewSection EXCEPT
              !.fetches = @ \ {f},
              !.loading = FALSE,
              !.userReview = IF currentUserReview # 0 THEN currentUserReview ELSE @,
              !.rating = IF currentUserReview # 0 THEN reviews[currentUserReview].rating ELSE @]
  /\ UNCHANGED <<storeVars, tabVars, contacts, proposal, chat, notif, profileVars,
                 names, reviews, orders, order_items, checkout>>

\* a star of the form is clicked; the form is rendered when the section is
\* not loading and the user is not the seller
setRating(r) ==
  /\ ~reviewSection.loading
  /\ reviewSection.user # ProductSeller(reviewSection.productId)
  /\ reviewSection' = [reviewSection EXCEPT !.rating = r]
  /\ UNCHANGED <<storeVars, tabVars, contacts, proposal, chat, notif, profileVars,
                 names, reviews, orders, order_items, checkout>>

\* submitReview up to its await; the button is disabled while submitting or
\* without a rating
submitReview ==
  /\ Cardinality(reviewSection.fetches) < MaxFetches
  /\ ~reviewSection.loading
  /\ reviewSection.user # ProductSeller(reviewSection.productId)
  /\ ~reviewSection.submitting
  /\ reviewSection.rating # 0
  /\ reviewSection' =
       [reviewSection EXCEPT
          !.submitting = TRUE,
          !.pending = [productId |-> reviewSection.productId,
                       userReview |-> reviewSection.userReview,
                       rating |-> reviewSection.rating]]
  /\ UNCHANGED <<storeVars, tabVars, contacts, proposal, chat, notif, profileVars,
                 names, reviews, orders, order_items, checkout>>

\* submitReview: the update by userReview.id or the insert is answered; on
\* success fetchReviews() is called, on an error the toast is shown;
\* setSubmitting(false)
SubmitAnswer(fault) ==
  /\ reviewSection.submitting
  /\ LET t == reviewSection.pending
         u == reviewSection.user
         done(section, toast) == [section EXCEPT !.submitting = FALSE, !.toast = toast]
     IN  IF fault
         THEN /\ reviewSection' = done(reviewSection, "Failed to submit review")
              /\ UNCHANGED reviews
         ELSE IF t.userReview # 0
         THEN \* "Users can update their own reviews": the row is the user's own
              /\ reviews' = [reviews EXCEPT ![t.userReview].rating = t.rating]
              /\ reviewSection' = done(Fetching(reviewSection, t.productId), "Review updated successfully!")
         ELSE IF ReviewUnique(t.productId, u)
         THEN /\ Len(reviews) < MaxReviews
              /\ reviews' = Append(reviews, [product_id |-> t.productId, user_id |-> u, rating |-> t.rating])
              /\ reviewSection' = done(Fetching(reviewSection, t.productId), "Review submitted successfully!")
         ELSE /\ reviewSection' = done(reviewSection, "Failed to submit review")
              /\ UNCHANGED reviews
  /\ UNCHANGED <<storeVars, tabVars, contacts, proposal, chat, notif, profileVars,
                 names, orders, order_items, checkout>>

(* --------------------------- CheckoutPage ----------------------------- *)
\* ProductPage.handleAddToCart: the product is put into the cart
addToCart(p) ==
  /\ checkout.pc = "idle"
  /\ p \notin checkout.items
  /\ checkout' = [checkout EXCEPT !.items = @ \cup {p}]
  /\ UNCHANGED <<storeVars, tabVars, contacts, proposal, chat, notif, profileVars,
                 names, reviews, reviewSection, orders, order_items>>

\* handleCheckout up to its first await, with the shipping form filled in; the
\* button is disabled while loading
handleCheckout ==
  /\ checkout.pc = "idle"
  /\ checkout' =
       IF checkout.items = {}
       THEN [checkout EXCEPT !.toast = "Your cart is empty"]
       ELSE [checkout EXCEPT !.pc = "order", !.loading = TRUE, !.toast = "none",
                             !.order = 0, !.cart = checkout.items]
  /\ UNCHANGED <<storeVars, tabVars, contacts, proposal, chat, notif, profileVars,
                 names, reviews, reviewSection, orders, order_items>>

\* the catch and finally of handleCheckout
Failed(c) == [c EXCEPT !.pc = "idle", !.loading = FALSE,
                       !.toast = "Failed to place order. Please try again."]

\* handleCheckout: "Create order in database", status 'pending'
CheckoutOrder(fault) ==
  /\ checkout.pc = "order"
  /\ IF fault
     THEN /\ checkout' = Failed(checkout)
          /\ UNCHANGED orders
     ELSE /\ Len(orders) < MaxOrders
          /\ orders' = Append(orders, [user_id |-> checkout.user, status |-> "pending"])
          /\ checkout' = [checkout EXCEPT !.pc = "items", !.order = Len(orders) + 1]
  /\ UNCHANGED <<storeVars, tabVars, contacts, proposal, chat, notif, profileVars,
                 names, reviews, reviewSection, order_items>>

\* handleCheckout: "Create order items", one row per item of the cart, in one
\* insert
CheckoutItems(fault) ==
  /\ checkout.pc = "items"
  /\ IF fault
     THEN /\ checkout' = Failed(checkout)
          /\ UNCHANGED order_items
     ELSE /\ order_items' = order_items \cup
               {[order_id |-> checkout.order, product_id |-> p] : p \in checkout.cart}
          /\ checkout' = [checkout EXCEPT !.pc = "payment"]
  /\ UNCHANGED <<storeVars, tabVars, contacts, proposal, chat, notif, profileVars,
                 names, reviews, reviewSection, orders>>

\* simulatePayment resolves to true
simulatePayment ==
  /\ checkout.pc = "payment"
  /\ checkout' = [checkout EXCEPT !.pc = "update"]
  /\ UNCHANGED <<storeVars, tabVars, contacts, proposal, chat, notif, profileVars,
                 names, reviews, reviewSection, orders, order_items>>

\* handleCheckout: "Update order status"; the result of the update is not read
CheckoutUpdate(fault) ==
  /\ checkout.pc = "update"
  /\ orders' = IF fault THEN orders
               ELSE [orders EXCEPT ![checkout.order].status = "completed"]
  /\ checkout' = [checkout EXCEPT !.pc = "clear"]
  /\ UNCHANGED <<storeVars, tabVars, contacts, proposal, chat, notif, profileVars,
                 names, reviews, reviewSection, order_items>>

\* handleCheckout: await clearCart(), toast.success, navigate, finally
clearCart ==
  /\ checkout.pc = "clear"
  /\ checkout' = [checkout EXCEPT !.pc = "idle", !.loading = FALSE, !.items = {},
                                  !.toast = "Order placed successfully!"]
  /\ UNCHANGED <<storeVars, tabVars, contacts, proposal, chat, notif, profileVars,
                 names, reviews, reviewSection, orders, order_items>>

(* ------------------------- specifications ----------------------------- *)
\* no lookup, no review section and no checkout page in use
PagesIdle ==
  /\ names = <<>>
  /\ reviews = <<>>
  /\ reviewSection = 0
  /\ orders = <<>>
  /\ order_items = {}
  /\ checkout = 0

NoProposal == [user |-> NoUser, product |-> "p0", proposedPrice |-> <<>>,
               toast |-> "none", issued |-> FALSE]
NoChat == Unmounted(NoUser)
NoNotif == SignedOut

Init ==
  /\ negotiations = <<>>
  /\ conversations = <<>>
  /\ conversation_messages = <<>>
  /\ tabNegotiations = [u \in Users |-> {}]
  /\ actions = <<>>
  /\ contacts = <<>>
  /\ proposal = NoProposal
  /\ chat = NoChat
  /\ notif = NoNotif
  /\ profiles = <<>>
  /\ ensures = <<>>
  /\ PagesIdle

\* ProductPage: contact seller
ContactSteps(Faults) ==
  \/ \E u \in Users, p \in Products : ContactSeller(u, p)
  \/ \E i \in 1..MaxContacts, f \in Faults : ContactLookup(i, f)
  \/ \E i \in 1..MaxContacts, f \in Faults : ContactInsert(i, f)

\* the price typed in the runs of the resolution flow
FlowPrice == <<"5">>

\* a price is proposed on p1, the seller's tab lists it, the seller resolves it
ResolveSteps(Faults) ==
  \/ \E u \in Users, f \in Faults : handleNegotiation(u, "p1", FlowPrice, f)
  \/ \E u \in Users, f \in Faults : fetchNegotiations(u, f)
  \/ \E u \in Users, n \in 1..MaxNegotiations, a \in {"accept", "reject"} :
       handleNegotiationAction(u, n, a)
  \/ \E i \in 1..MaxActions, f \in Faults : ActionUpdate(i, f)
  \/ \E i \in 1..MaxActions, f \in Faults : ActionLookup(i, f)
  \/ \E i \in 1..MaxActions, f \in Faults, ff \in Faults : ActionCreate(i, f, ff)
  \/ \E i \in 1..MaxActions, f \in Faults, ff \in Faults : ActionInsert(i, f, ff)

\* the whole flow; the storage answers each call or fails it
Next == ContactSteps(BOOLEAN) \/ ResolveSteps(BOOLEAN)
Spec == Init /\ [][Next]_vars

\* contact seller alone
NextContact == ContactSteps(BOOLEAN)
SpecContact == Init /\ [][NextContact]_vars
NextContactReliable == ContactSteps({FALSE})
SpecContactReliable == Init /\ [][NextContactReliable]_vars

\* propose and resolve alone
NextResolve == ResolveSteps(BOOLEAN)
SpecResolve == Init /\ [][NextResolve]_vars
NextResolveReliable == ResolveSteps({FALSE})
SpecResolveReliable == Init /\ [][NextResolveReliable]_vars

\* a chat between buyer u2 and seller u1 about p1, while the seller's accept or
\* reject of u2's offer is about to write its notice into the conversation
InitChat ==
  \E a \in {"accept", "reject"}, u \in Users :
    /\ conversations = <<[buyer_id |-> "u2", seller_id |-> "u1", product_id |-> "p1",
                          last_message_at |-> 1, created_at |-> 1]>>
    /\ negotiations = <<[product_id |-> "p1", buyer_id |-> "u2", seller_id |-> "u1",
                         proposed_price |-> 500, status |-> StatusOf(a), created_at |-> 2]>>
    /\ conversation_messages = <<>>
    /\ tabNegotiations = [v \in Users |-> IF v = "u1" THEN {[id |-> 1, status |-> "pending"]} ELSE {}]
    /\ actions = <<[user |-> "u1", negotiationId |-> 1, action |-> a, pc |-> "insert",
                    conversation |-> 1, message |-> 0, toast |-> "none"]>>
    /\ contacts = <<[user |-> "u2", product |-> "p1", pc |-> "done",
                     toast |-> "Conversation started", conversation |-> 1]>>
    /\ proposal = [user |-> "u2", product |-> "p1", proposedPrice |-> FlowPrice,
                   toast |-> "Negotiation submitted", issued |-> TRUE]
    /\ chat = Unmounted(u)
    /\ notif = NoNotif
    /\ profiles = <<>>
    /\ ensures = <<>>
    /\ PagesIdle

NextChat ==
  \/ \E c \in 1..2 : SelectConversation(c)
  \/ onBack
  \/ \E f \in chat.fetches, fault \in BOOLEAN : FetchServe(f, fault)
  \/ \E f \in chat.fetches : setMessages(f)
  \/ OnInsert
  \/ \E m \in 1..MaxMessages : OnInsertResume(m)
  \/ \E text \in Drafts : setNewMessage(text)
  \/ sendMessage
  \/ \E p \in Products : mentionProduct(p)
  \/ \E fault \in BOOLEAN : SendInsert(fault)
  \/ \E fault \in BOOLEAN, ff \in BOOLEAN : ActionInsert(1, fault, ff)
SpecChat == InitChat /\ [][NextChat]_vars

\* the negotiation form with every content of the price field, until the
\* table holds MaxNegotiations offers
NextPropose ==
  /\ Len(negotiations) < MaxNegotiations
  /\ \E u \in Users, p \in Products, s \in StringsUpTo(MaxPriceLen), f \in BOOLEAN :
       handleNegotiation(u, p, s, f)
SpecPropose == Init /\ [][NextPropose]_vars

\* the chat with two conversations to switch between: u2 asked about p1 and
\* u1 asked about p2
InitSwitch ==
  \E u \in Users :
    /\ conversations = <<[buyer_id |-> "u2", seller_id |-> "u1", product_id |-> "p1",
                          last_message_at |-> 1, created_at |-> 1],
                         [buyer_id |-> "u1", seller_id |-> "u2", product_id |-> "p2",
                          last_message_at |-> 2, created_at |-> 2]>>
    /\ negotiations = <<>>
    /\ conversation_messages = <<>>
    /\ tabNegotiations = [v \in Users |-> {}]
    /\ actions = <<>>
    /\ contacts = <<[user |-> "u2", product |-> "p1", pc |-> "done",
                     toast |-> "Conversation started", conversation |-> 1],
                    [user |-> "u1", product |-> "p2", pc |-> "done",
                     toast |-> "Conversation started", conversation |-> 2]>>
    /\ proposal = NoProposal
    /\ chat = Unmounted(u)
    /\ notif = NoNotif
    /\ profiles = <<>>
    /\ ensures = <<>>
    /\ PagesIdle

NextSwitch ==
  \/ \E c \in 1..2 : SelectConversation(c)
  \/ onBack
  \/ \E f \in chat.fetches : FetchServe(f, FALSE)
  \/ \E f \in chat.fetches : setMessages(f)
  \/ OnInsert
  \/ \E m \in 1..MaxMessages : OnInsertResume(m)
  \/ setNewMessage(<<"h">>)
  \/ sendMessage
  \/ SendInsert(FALSE)
SpecSwitch == InitSwitch /\ [][NextSwitch]_vars

\* the notification provider of one browser, while u2, who has the chat about
\* p1 open, is sending a message and seller u1 has clicked Accept on u2's offer
InitNotify ==
  \E a \in {"accept"} :
    /\ conversations = <<[buyer_id |-> "u2", seller_id |-> "u1", product_id |-> "p1",
                          last_message_at |-> 1, created_at |-> 1]>>
    /\ negotiations = <<[product_id |-> "p1", buyer_id |-> "u2", seller_id |-> "u1",
                         proposed_price |-> 500, status |-> "pending", created_at |-> 2]>>
    /\ conversation_messages = <<>>
    /\ tabNegotiations = [v \in Users |-> IF v = "u1" THEN {[id |-> 1, status |-> "pending"]} ELSE {}]
    /\ actions = <<[user |-> "u1", negotiationId |-> 1, action |-> a, pc |-> "update",
                    conversation |-> 0, message |-> 0, toast |-> "none"]>>
    /\ contacts = <<[user |-> "u2", product |-> "p1", pc |-> "done",
                     toast |-> "Conversation started", conversation |-> 1]>>
    /\ proposal = [user |-> "u2", product |-> "p1", proposedPrice |-> FlowPrice,
                   toast |-> "Negotiation submitted", issued |-> TRUE]
    /\ chat = [Unmounted("u2") EXCEPT
                 !.conversationId = 1, !.newMessage = <<"h">>, !.loading = TRUE,
                 !.pending = <<[conversation_id |-> 1, message |-> <<"h">>,
                                message_type |-> "text"]>>]
    /\ notif = NoNotif
    /\ profiles = <<>>
    /\ ensures = <<>>
    /\ PagesIdle

\* the positions of the notification list a click can hit
MaxNotifications == MaxMessages + MaxNegotiations

NextNotify ==
  \/ \E u \in Users : signIn(u)
  \/ signOut
  \/ \E f \in BagToSet(notif.fetches) : FetchMessages(f, FALSE)
  \/ \E f \in BagToSet(notif.fetches) : FetchNegotiations(f, FALSE)
  \/ \E k \in 1..MaxNotifications : markAsRead(k)
  \/ markAllAsRead
  \/ \E m \in notif.marks : MarkSet(m)
  \/ SendInsert(FALSE)
  \/ ActionUpdate(1, FALSE)
  \/ ActionLookup(1, FALSE)
  \/ ActionInsert(1, FALSE, FALSE)
SpecNotify == InitNotify /\ [][NextNotify]_vars

\* the chat of a signed-in user and the profile page, with the storage
\* answering every call
InitProfile ==
  \E u \in Users :
    /\ conversations = <<[buyer_id |-> "u2", seller_id |-> "u1", product_id |-> "p1",
                          last_message_at |-> 1, created_at |-> 1]>>
    /\ negotiations = <<>>
    /\ conversation_messages = <<>>
    /\ tabNegotiations = [v \in Users |-> {}]
    /\ actions = <<>>
    /\ contacts = <<[user |-> "u2", product |-> "p1", pc |-> "done",
                     toast |-> "Conversation started", conversation |-> 1]>>
    /\ proposal = NoProposal
    /\ chat = Unmounted(u)
    /\ notif = NoNotif
    /\ profiles = <<>>
    /\ ensures = <<>>
    /\ PagesIdle

NextProfile ==
  \/ SelectConversation(1)
  \/ onBack
  \/ \E f \in chat.fetches : FetchServe(f, FALSE)
  \/ \E f \in chat.fetches : setMessages(f)
  \/ \E u \in Users : ensureUserProfile(u)
  \/ \E i \in 1..MaxEnsures : EnsureSelect(i, FALSE)
  \/ \E i \in 1..MaxEnsures : EnsureInsert(i, FALSE)
  \/ \E u \in Users, n \in FullNames : handleSave(u, n)
SpecProfile == InitProfile /\ [][NextProfile]_vars

\* name lookups of either user for either user, while profiles come into
\* being through the chat of u and the profile page; the storage answers each
\* lookup or fails it
InitNames ==
  \E u \in Users :
    /\ conversations = <<[buyer_id |-> "u2", seller_id |-> "u1", product_id |-> "p1",
                          last_message_at |-> 1, created_at |-> 1]>>
    /\ negotiations = <<>>
    /\ conversation_messages = <<>>
    /\ tabNegotiations = [v \in Users |-> {}]
    /\ actions = <<>>
    /\ contacts = <<[user |-> "u2", product |-> "p1", pc |-> "done",
                     toast |-> "Conversation started", conversation |-> 1]>>
    /\ proposal = NoProposal
    /\ chat = [Unmounted(u) EXCEPT !.conversationId = 1]
    /\ notif = NoNotif
    /\ profiles = <<>>
    /\ ensures = <<>>
    /\ PagesIdle

NextNames ==
  \/ \E u \in Users : ensureUserProfile(u)
  \/ \E i \in 1..MaxEnsures : EnsureSelect(i, FALSE)
  \/ \E i \in 1..MaxEnsures : EnsureInsert(i, FALSE)
  \/ \E u \in Users, n \in FullNames : handleSave(u, n)
  \/ \E caller \in Users, userId \in Users : getUserDisplayName(caller, userId)
  \/ \E i \in 1..MaxLookups, fault \in BOOLEAN : NameSelect(i, fault)
SpecNames == InitNames /\ [][NextNames]_vars

\* the chat about p1 of either participant, while mentions are made in it
\* and rows of type product_mention are stored through the API
NextRender ==
  \/ SelectConversation(1)
  \/ \E f \in chat.fetches : FetchServe(f, FALSE)
  \/ \E f \in chat.fetches : setMessages(f)
  \/ \E p \in Products : mentionProduct(p)
  \/ SendInsert(FALSE)
  \/ \E u \in Users, body \in ApiBodies : apiInsert(u, 1, body, "product_mention")
SpecRender == InitProfile /\ [][NextRender]_vars

\* the chat of InitChat with the storage answering every request: the
\* conversation is opened and closed while the seller's notice and the
\* user's own messages are stored
NextOpen ==
  \/ SelectConversation(1)
  \/ onBack
  \/ \E f \in chat.fetches : FetchServe(f, FALSE)
  \/ \E f \in chat.fetches : setMessages(f)
  \/ OnInsert
  \/ \E m \in 1..MaxMessages : OnInsertResume(m)
  \/ setNewMessage(<<"h">>)
  \/ sendMessage
  \/ SendInsert(FALSE)
  \/ ActionInsert(1, FALSE, FALSE)
SpecOpen == InitChat /\ [][NextOpen]_vars

\* the review section of u2, mounted on p1 and then given other products,
\* with the storage answering every request
InitReview ==
  /\ Init!1 /\ Init!2 /\ Init!3 /\ Init!4 /\ Init!5 /\ Init!6 /\ Init!7
  /\ chat = NoChat /\ notif = NoNotif /\ profiles = <<>> /\ ensures = <<>>
  /\ names = <<>>
  /\ reviews = <<>>
  /\ reviewSection =
       [user |-> "u2", productId |-> "p1", userReview |-> 0, rating |-> 0,
        loading |-> TRUE, submitting |-> FALSE, toast |-> "none",
        fetches |-> {[productId |-> "p1", served |-> FALSE, data |-> {}]},
        pending |-> [productId |-> "p1", userReview |-> 0, rating |-> 0]]
  /\ orders = <<>>
  /\ order_items = {}
  /\ checkout = 0

NextReview ==
  \/ \E p \in Products : setProductId(p)
  \/ \E f \in reviewSection.fetches : ReviewsServe(f, FALSE)
  \/ \E f \in reviewSection.fetches : setReviews(f)
  \/ \E r \in {1, 5} : setRating(r)
  \/ submitReview
  \/ SubmitAnswer(FALSE)
SpecReview == InitReview /\ [][NextReview]_vars

\* the checkout page of u2 with an empty cart; products are put into the
\* cart and orders are placed, the storage answering each request or failing it
InitCheckout ==
  /\ Init!1 /\ Init!2 /\ Init!3 /\ Init!4 /\ Init!5 /\ Init!6 /\ Init!7
  /\ chat = NoChat /\ notif = NoNotif /\ profiles = <<>> /\ ensures = <<>>
  /\ names = <<>>
  /\ reviews = <<>>
  /\ reviewSection = 0
  /\ orders = <<>>
  /\ order_items = {}
  /\ checkout = [user |-> "u2", items |-> {}, cart |-> {}, pc |-> "idle", order |-> 0,
                 loading |-> FALSE, toast |-> "none"]

NextCheckout ==
  \/ \E p \in Products : addToCart(p)
  \/ handleCheckout
  \/ \E fault \in BOOLEAN : CheckoutOrder(fault)
  \/ \E fault \in BOOLEAN : CheckoutItems(fault)
  \/ simulatePayment
  \/ \E fault \in BOOLEAN : CheckoutUpdate(fault)
  \/ clearCart
SpecCheckout == InitCheckout /\ [][NextCheckout]_vars

(* ----------------------------- properties ----------------------------- *)
SameTriple(c, b, s, p) == c.buyer_id = b /\ c.seller_id = s /\ c.product_id = p

\* the system messages written for negotiation n, in any conversation
Notices(n) ==
  {i \in 1..Len(conversation_messages) :
     /\ conversation_messages[i].message_type = "system"
     /\ conversation_messages[i].message[2] = n}

\* ... and those in the conversation of the negotiation's buyer, seller and product
NoticesToBuyer(n) ==
  {i \in Notices(n) :
     LET c == conversations[conversation_messages[i].conversation_id]
     IN  SameTriple(c, negotiations[n].buyer_id, negotiations[n].seller_id,
                    negotiations[n].product_id)}

\* invocation i is the only resolve call made on its negotiation
OnlyCall(i) ==
  \A j \in 1..Len(actions) : actions[j].negotiationId = actions[i].negotiationId => j = i

\* a negotiation between two different users
Proper(n) == negotiations[n].buyer_id # negotiations[n].seller_id

\* C1: when a buyer's negotiation was resolved by one accept or reject and
\* that call has completed, exactly one system message for it is in the
\* conversation of its buyer, seller and product.
C1_OneNoticePerResolution ==
  \A i \in 1..Len(actions) :
    (/\ actions[i].pc = "done" /\ actions[i].toast = "Buyer has been notified"
     /\ OnlyCall(i) /\ Proper(actions[i].negotiationId))
      => Cardinality(NoticesToBuyer(actions[i].negotiationId)) = 1

\* C2: resolve calls on one buyer's negotiation never leave more than one system
\* message for it, however the second call was issued.
C2_NoDuplicateNotice ==
  \A n \in 1..Len(negotiations) : Proper(n) => Cardinality(Notices(n)) <= 1

\* C3: the status of a buyer's negotiation, once accepted or rejected, never
\* changes again.
C3_StatusFinal ==
  [][\A n \in 1..Len(negotiations) :
       (Proper(n) /\ negotiations[n].status # "pending")
         => negotiations'[n].status = negotiations[n].status]_vars

\* C4: a user proposing a price on their own product gets a validation error
\* and no negotiation row has buyer_id = seller_id.
C4_NoSelfDealing ==
  /\ proposal.user = ProductSeller(proposal.product) => ~proposal.issued
  /\ \A n \in 1..Len(negotiations) : negotiations[n].buyer_id # negotiations[n].seller_id

\* a whole price field that reads as a decimal numeral: an optional sign, then
\* digits with at most one point among them
IsNumeral(s) ==
  LET body == IF s # <<>> /\ s[1] = "-" THEN Tail(s) ELSE s
  IN  /\ \A i \in 1..Len(body) : body[i] \in Digits \cup {"."}
      /\ Cardinality({i \in 1..Len(body) : body[i] = "."}) <= 1
      /\ \E i \in 1..Len(body) : body[i] \in Digits

\* the field is empty, or a numeral that is zero or negative
NonPositiveInput(s) ==
  \/ s = <<>>
  \/ IsNumeral(s) /\ (s[1] = "-" \/ \A i \in 1..Len(s) : s[i] # "5")

\* C5: proposing a price that is empty, zero or negative shows the validation
\* error, issues no insert and leaves the negotiations table as it was.
C5_NonPositivePriceRejected ==
  /\ [](NonPositiveInput(proposal.proposedPrice) /\ ProductSeller(proposal.product) # NoUser
          => proposal.toast = "Please enter a valid price" /\ ~proposal.issued)
  /\ [][NonPositiveInput(proposal'.proposedPrice) => negotiations' = negotiations]_vars

\* C5 witness: a zero or negative price was rejected after an offer had been stored
C5_Witness ==
  /\ proposal.proposedPrice # <<>>
  /\ NonPositiveInput(proposal.proposedPrice)
  /\ proposal.toast = "Please enter a valid price"
  /\ Len(negotiations) > 0

\* C6: no conversation has buyer_id = seller_id.
C6_NoSelfConversation ==
  \A c \in 1..Len(conversations) : conversations[c].buyer_id # conversations[c].seller_id

\* the conversation of a contact-seller call's buyer, seller and product
ContactConversations(t) ==
  {c \in 1..Len(conversations) :
     SameTriple(conversations[c], t.user, ProductSeller(t.product), t.product)}

\* C7: at most one conversation row exists per (buyer, seller, product); the
\* contact-seller calls of one buyer on one product that found or created a
\* conversation all got that row; and a call that looks up after the row
\* exists finds it.
C7_FindOrCreateIdempotent ==
  /\ [](/\ \A c, d \in 1..Len(conversations) :
             SameTriple(conversations[c], conversations[d].buyer_id,
                        conversations[d].seller_id, conversations[d].product_id) => c = d
        /\ \A i \in 1..Len(contacts) :
             contacts[i].conversation # 0 => contacts[i].conversation \in ContactConversations(contacts[i])
        /\ \A i, j \in 1..Len(contacts) :
             (/\ contacts[i].conversation # 0 /\ contacts[j].conversation # 0
              /\ contacts[i].user = contacts[j].user /\ contacts[i].product = contacts[j].product)
               => contacts[i].conversation = contacts[j].conversation)
  /\ [][\A i \in 1..Len(contacts) :
          (contacts[i].pc = "lookup" /\ contacts'[i].pc # "lookup" /\ ContactConversations(contacts[i]) # {})
            => contacts'[i].pc = "done" /\ contacts'[i].conversation \in ContactConversations(contacts[i])]_vars

\* C7 witness: two completed calls of one buyer on one product, the first
\* created the conversation and the second found it
C7_Witness ==
  \E i, j \in 1..Len(contacts) :
    /\ i # j
    /\ contacts[i].user = contacts[j].user /\ contacts[i].product = contacts[j].product
    /\ contacts[i].pc = "done" /\ contacts[i].toast = "Conversation started"
    /\ contacts[j].pc = "done" /\ contacts[j].toast = "none"
    /\ contacts[j].conversation = contacts[i].conversation
    /\ contacts[i].conversation # 0

\* C8: a find-or-create whose insert hit the uniqueness constraint reuses the
\* existing conversation instead of ending in a failure.
C8_ConstraintViolationRecovered ==
  \A i \in 1..Len(contacts) :
    (contacts[i].pc = "done" /\ ContactConversations(contacts[i]) # {})
      => contacts[i].toast # "Failed to start conversation"

\* the ids of the rows of conversation c
RowsOf(c) == {i \in 1..Len(conversation_messages) : conversation_messages[i].conversation_id = c}
Latest(S) == CHOOSE x \in S : \A y \in S : y <= x

\* C9: a conversation that has messages carries in last_message_at the
\* created_at of the message appended last, which no other message exceeds.
C9_LastMessageAt ==
  \A c \in 1..Len(conversations) :
    RowsOf(c) # {} =>
      /\ conversations[c].last_message_at = conversation_messages[Latest(RowsOf(c))].created_at
      /\ \A i \in RowsOf(c) : conversation_messages[i].created_at <= conversations[c].last_message_at

\* C9 witness: a second append, of another kind than the first, has moved
\* last_message_at past the first message
C9_Witness ==
  \E c \in 1..Len(conversations) :
    /\ Cardinality(RowsOf(c)) >= 2
    /\ \E i \in RowsOf(c) : conversation_messages[i].message_type = "system"
    /\ \E i \in RowsOf(c) : conversation_messages[i].message_type # "system"
    /\ \E i \in RowsOf(c) : conversation_messages[i].created_at < conversations[c].last_message_at

\* C10: the subscription's callback appends the inserted rows in insertion
\* order: when the callback of a row appends it, no callback of an earlier
\* row is still waiting for its display name.
C10_AppendedInInsertionOrder ==
  [][\A m \in chat.handlers :
       (chat'.conversationId = chat.conversationId /\ m \notin chat'.handlers)
         => \A k \in chat.handlers : m <= k]_vars

\* C11: once the cleanup of a conversation's subscription has run, its
\* callbacks append nothing: whenever a callback appends a row to the message
\* list, the row belongs to the conversation the chat is subscribed to.
C11_NoAppendAfterCleanup ==
  [][\A m \in chat.handlers :
       (m \notin chat'.handlers /\ chat'.messages = Append(chat.messages, m))
         => conversation_messages[m].conversation_id = chat.conversationId]_vars

\* C12: when mark-all-read of user U has completed, every stored message of
\* U's conversations that U did not send has is_read = true.
C12_MarkAllReadMarksOthers ==
  [][\A m \in notif.marks :
       (m.id = AllEntries /\ m \notin notif'.marks)
         => \A i \in 1..Len(conversation_messages) :
              (/\ CanViewMessage(m.user, conversation_messages[i])
               /\ conversation_messages[i].sender_id # m.user
               /\ i \in m.rows)
                => conversation_messages[i].is_read]_vars

\* C13: mark-all-read by user U leaves is_read as it was on every message
\* that U sent.
C13_MarkAllReadKeepsOwn ==
  [][(notif'.lastMark.id = AllEntries /\ Len(conversation_messages') = Len(conversation_messages))
       => \A i \in 1..Len(conversation_messages) :
            conversation_messages[i].sender_id = notif.user
              => conversation_messages'[i].is_read = conversation_messages[i].is_read]_vars

\* C13 witness: a mark-all-read has completed for a user who had sent a
\* message, which is still unread, before a message of the other party that
\* was among the rows the update named
C13_Witness ==
  /\ notif.lastMark.id = AllEntries
  /\ notif.lastMark.user = notif.user
  /\ notif.marks = {}
  /\ \E i \in 1..Len(conversation_messages) :
       /\ conversation_messages[i].sender_id = notif.user
       /\ ~conversation_messages[i].is_read
       /\ \E j \in notif.lastMark.rows : i < j

\* C14: a stored message that has is_read = true keeps it in every step of
\* the client: send, mention, mark-as-read, mark-all-read, resolution.
C14_ReadIsOneWay ==
  [][\A i \in 1..Len(conversation_messages) :
       conversation_messages[i].is_read => conversation_messages'[i].is_read]_vars

\* C14 witness: a message was marked read, and a later mark-all-read that
\* named it has left it read
C14_Witness ==
  \E i \in 1..Len(conversation_messages) :
    /\ conversation_messages[i].is_read
    /\ notif.lastMark.id = AllEntries
    /\ i \in notif.lastMark.rows

\* C15: when the addressee has opened a conversation and its messages are on
\* screen, the messages in it that the other party sent are read.
C15_OpeningMarksRead ==
  [][\A f \in chat.fetches :
       (f.served /\ f \notin chat'.fetches /\ chat'.messages = f.data
          /\ f.conversationId = chat.conversationId)
         => \A k \in 1..Len(f.data) :
              conversation_messages[f.data[k]].sender_id # chat.user
                => conversation_messages'[f.data[k]].is_read]_vars

\* C16: the notification list is sorted non-increasing by createdAt and
\* unreadCount is the number of its entries with isRead = false, in every
\* state: after a recompute, after markAsRead and after markAllAsRead.
C16_SortedAndCounted ==
  /\ \A i, j \in 1..Len(notif.notifications) :
       i < j => notif.notifications[i].createdAt >= notif.notifications[j].createdAt
  /\ unreadCount = Cardinality({k \in 1..Len(notif.notifications) : ~notif.notifications[k].isRead})

\* C16 witness: a list of a message and an offer, of which a click has marked
\* one read
C16_Witness ==
  /\ Len(notif.notifications) >= 2
  /\ notif.marks = {}
  /\ notif.lastMark.id # AllEntries /\ notif.lastMark # NoMark
  /\ \E k \in 1..Len(notif.notifications) : notif.notifications[k].isRead
  /\ unreadCount >= 1
  /\ \E i, j \in 1..Len(notif.notifications) :
       notif.notifications[i].createdAt > notif.notifications[j].createdAt

\* the unread messages addressed to u: sent by someone else in a conversation
\* where u is buyer or seller
AddressedUnread(u) ==
  {i \in 1..Len(conversation_messages) :
     LET m == conversation_messages[i]
         c == conversations[m.conversation_id]
     IN  m.sender_id # u /\ m.is_read = FALSE /\ (c.buyer_id = u \/ c.seller_id = u)}

\* the pending offers made to seller u
OffersPending(u) ==
  {i \in 1..Len(negotiations) :
     negotiations[i].seller_id = u /\ negotiations[i].status = "pending"}

\* the entries of a list, without their order
EntrySet(list) == {list[k] : k \in 1..Len(list)}

\* C17: a recompute for user U selects exactly the unread messages addressed
\* to U, and the list it sets holds exactly one entry for each of them, tagged
\* 'negotiation' for a system message and 'message' otherwise, and one entry
\* for each pending offer made to seller U.
C17_RecomputeExact ==
  [][/\ \A f \in BagToSet(notif.fetches), g \in BagToSet(notif'.fetches) :
          (/\ f.phase = "messages" /\ g.phase = "negotiations" /\ g.user = f.user
           /\ notif'.fetches = (notif.fetches (-) SetToBag({f})) (+) SetToBag({g}))
            => g.messages = AddressedUnread(f.user)
     /\ \A f \in BagToSet(notif.fetches) :
          (/\ f.phase = "negotiations" /\ f.user = notif.user
           /\ notif'.fetches = notif.fetches (-) SetToBag({f})
           /\ notif'.marks = notif.marks)
            => /\ Len(notif'.notifications) = Cardinality(f.messages) + Cardinality(OffersPending(f.user))
               /\ EntrySet(notif'.notifications) =
                    {[id |-> <<"msg", i>>,
                      type |-> IF conversation_messages[i].message_type = "system"
                               THEN "negotiation" ELSE "message",
                      isRead |-> FALSE,
                      createdAt |-> conversation_messages[i].created_at] : i \in f.messages}
                    \cup
                    {[id |-> <<"neg", i>>, type |-> "negotiation", isRead |-> FALSE,
                      createdAt |-> negotiations[i].created_at] : i \in OffersPending(f.user)}]_vars

\* C17 witness: a recompute has returned, for a user who has sent a message,
\* a list with an entry for the other party's message and one for an offer
C17_Witness ==
  /\ notif.user # NoUser
  /\ notif.fetches = EmptyBag
  /\ notif.lastMark = NoMark
  /\ \E k \in 1..Len(notif.notifications) : notif.notifications[k].id[1] = "msg"
  /\ \E k \in 1..Len(notif.notifications) : notif.notifications[k].id[1] = "neg"
  /\ EntrySet(notif.notifications) # {}
  /\ Len(conversation_messages) >= 1

\* C18: the entry of a negotiation that is pending has isRead = false, also
\* after the user clicked it or ran mark-all-read.
C18_PendingOfferUnread ==
  \A k \in 1..Len(notif.notifications) :
    LET e == notif.notifications[k]
    IN  (e.id[1] = "neg" /\ negotiations[e.id[2]].status = "pending") => ~e.isRead

\* the list a recompute over the current store gives user u
Recomputed(u) ==
  sort(MessageEntries(u, UnreadMessages(u, u)) \o NegotiationEntries(PendingNegotiations(u, u)))

\* C19: once no recompute and no mark call is in flight, the notification
\* list of the signed-in user is the recompute over the current store.
C19_ListFollowsStore ==
  (notif.user # NoUser /\ notif.fetches = EmptyBag /\ notif.marks = {})
    => notif.notifications = Recomputed(notif.user)

\* the profile rows of user u
RowsOfUser(u) == {i \in 1..Len(profiles) : profiles[i].user_id = u}

\* the part of an address before its first "@"
LocalPart(email) ==
  LET ats == {k \in 1..Len(email) : email[k] = "@"}
  IN  IF ats = {} THEN email
      ELSE SubSeq(email, 1, (CHOOSE k \in ats : \A l \in ats : k <= l) - 1)

\* C20: however the ensureUserProfile calls of a user interleave, no user has
\* two profile rows, a user with a completed call has exactly one, a row made
\* by a call carries the local part of the email as full_name, a call that
\* lost the insert race ends with its error logged, and no stored row is ever
\* changed.
C20_EnsureProfileIdempotent ==
  /\ [](/\ \A u \in Users : Cardinality(RowsOfUser(u)) <= 1
        /\ \A i \in 1..Len(ensures) :
             ensures[i].pc = "done" =>
               /\ Cardinality(RowsOfUser(ensures[i].user)) = 1
               /\ ensures[i].outcome \in {"exists", "created", "logged"}
               /\ ensures[i].outcome = "created" =>
                    \A r \in RowsOfUser(ensures[i].user) :
                      profiles[r].full_name = LocalPart(Email(ensures[i].user)))
  /\ [][\A r \in 1..Len(profiles) : profiles'[r] = profiles[r]]_vars

\* C20 witness: two calls for one user raced, one created the row and the
\* other's insert was refused, while the other user's row came from the
\* profile page
C20_Witness ==
  /\ \E i, j \in 1..Len(ensures) :
       /\ ensures[i].user = ensures[j].user
       /\ ensures[i].pc = "done" /\ ensures[i].outcome = "created"
       /\ ensures[j].pc = "done" /\ ensures[j].outcome = "logged"
       /\ Cardinality(RowsOfUser(ensures[i].user)) = 1
  /\ Len(profiles) = 2

\* the text "User " followed by the first 8 characters of an id
UserPrefixed(id) == <<"U", "s", "e", "r", " ">> \o [k \in 1..8 |-> id[k]]

Rendered == [k \in 1..Len(chat.messages) |-> renderMessage(conversation_messages[chat.messages[k]])]

\* C22: a product_mention message on screen whose body is no JSON, or JSON
\* without the product_mention tag or without a product, is rendered as its
\* raw text, and rendering throws for no message on screen.
C22_MalformedMentionRendersRaw ==
  \A k \in 1..Len(chat.messages) :
    LET m == conversation_messages[chat.messages[k]]
    IN  /\ Rendered[k].kind # "throws"
        /\ (m.message_type = "product_mention" /\ m.message \in Unparseable \cup NotAMention)
             => Rendered[k] = [kind |-> "raw", text |-> m.message]

\* C23: a resolve call in which a storage step failed ends with an error shown
\* to the seller: the notice "Buyer has been notified" is shown only by calls
\* whose status update took effect and whose system message was stored.
C23_FailureSurfaces ==
  \A i \in 1..Len(actions) :
    (actions[i].pc = "done" /\ actions[i].toast = "Buyer has been notified")
      => /\ actions[i].message # 0
         /\ negotiations[actions[i].negotiationId].status # "pending"

\* C24: once the resolve calls made on a negotiation have completed, every
\* system message written for it names the status the negotiation has: no
\* 'accepted' notice for a rejected offer and no 'rejected' notice for an
\* accepted one.
C24_NoticesAgreeWithStatus ==
  (\A i \in 1..Len(actions) : actions[i].pc = "done")
    => \A n \in 1..Len(negotiations) :
         \A m \in Notices(n) : conversation_messages[m].message[1] = negotiations[n].status

\* C25: the message list is only ever written for the selected conversation:
\* a fetch result that replaces the list with messages is the result of the
\* fetch of the conversation now selected, and a callback that appends a row
\* appends a row of that conversation.
C25_ListOfSelectedConversation ==
  [][/\ \A f \in chat.fetches :
          (/\ f.served /\ f \notin chat'.fetches /\ f.data # <<>>
           /\ chat'.messages = f.data /\ chat'.conversationId = chat.conversationId)
            => f.conversationId = chat.conversationId
     /\ \A m \in chat.handlers :
          (m \notin chat'.handlers /\ chat'.messages = Append(chat.messages, m)
             /\ chat'.conversationId = chat.conversationId)
            => conversation_messages[m].conversation_id = chat.conversationId]_vars

\* C26: when the fetch of the open conversation and the callbacks of its
\* subscription have all completed, the message list is the stored messages
\* of the conversation in order, each once.
C26_ListEqualsStore ==
  (/\ chat.conversationId # 0 /\ chat.fetches = {}
   /\ chat.events = <<>> /\ chat.handlers = {})
    => chat.messages = MessagesOf(chat.user, chat.conversationId)

\* C27: an entry of the notification list that stands for a message and has
\* isRead = true stands for a stored message with is_read = true.
C27_LocalReadImpliesStoredRead ==
  \A k \in 1..Len(notif.notifications) :
    LET e == notif.notifications[k]
    IN  (e.id[1] = "msg" /\ e.isRead) => conversation_messages[e.id[2]].is_read

\* C28: a submit creates or changes only the user's review of the product
\* that was displayed when it was made: every review row that the answer of a
\* submit adds or changes is of that product and of that user.
C28_SubmitTouchesDisplayedProduct ==
  [][(reviewSection.submitting /\ ~reviewSection'.submitting)
       => \A i \in 1..Len(reviews') :
            (i > Len(reviews) \/ reviews'[i] # reviews[i])
              => /\ reviews'[i].product_id = reviewSection.pending.productId
                 /\ reviews'[i].user_id = reviewSection.user]_vars

\* the products written as items of order o
ItemsOf(o) == {r.product_id : r \in {x \in order_items : x.order_id = o}}

\* C29: a checkout ends with the cart cleared and the success notice only
\* when its order is stored with status 'completed' and with an item for
\* every product of the cart; a checkout that ends with the failure notice
\* leaves the cart as it was; and no stored order is 'completed' without items.
C29_CheckoutAllOrNothing ==
  /\ [](/\ (checkout.pc = "idle" /\ checkout.toast = "Order placed successfully!")
             => /\ checkout.order \in 1..Len(orders)
                /\ orders[checkout.order].status = "completed"
                /\ ItemsOf(checkout.order) = checkout.cart
        /\ \A o \in 1..Len(orders) : orders[o].status = "completed" => ItemsOf(o) # {})
  /\ [][checkout.pc # "idle"
          => /\ checkout'.toast = "Failed to place order. Please try again."
                  => checkout'.items = checkout.items
             /\ checkout'.items # checkout.items
                  => checkout'.toast = "Order placed successfully!"]_vars

\* a text without a blank at either end
Trimmed(s) == s = <<>> \/ (s[1] # " " /\ s[Len(s)] # " ")

\* C30: a send is started only for a draft that is not empty after trimming,
\* and what it inserts is the trimmed draft; when its insert fails the draft
\* stays in the input, when it succeeds the input is cleared; and loading is
\* true exactly while a send or mention is awaiting its insert.
C30_SendKeepsDraftOnFailure ==
  /\ [](/\ chat.loading <=> chat.pending # <<>>
        /\ \A k \in 1..Len(chat.pending) :
             chat.pending[k].message_type = "text"
               => chat.pending[k].message # <<>> /\ Trimmed(chat.pending[k].message)
        /\ \A i \in 1..Len(conversation_messages) :
             conversation_messages[i].message_type = "text"
               => conversation_messages[i].message # <<>> /\ Trimmed(conversation_messages[i].message))
  /\ [][(/\ chat.pending # <<>> /\ chat.pending[1].message_type = "text"
          /\ chat'.pending = <<>> /\ chat'.conversationId # 0)
           => /\ ~chat'.loading
              /\ chat'.newMessage =
                   IF Len(conversation_messages') > Len(conversation_messages)
                   THEN <<>> ELSE chat.newMessage
              /\ Len(conversation_messages') > Len(conversation_messages)
                   => conversation_messages'[Len(conversation_messages')].message
                        = chat.pending[1].message]_vars

\* C30 witness: after a message went through, the insert of a second send has
\* failed and its draft, which ends in a blank, is still in the input
C30_Witness ==
  /\ chat.toast = "Failed to send message"
  /\ ~chat.loading
  /\ chat.newMessage = <<"h", " ">>
  /\ \E i \in 1..Len(conversation_messages) :
       /\ conversation_messages[i].sender_id = chat.user
       /\ conversation_messages[i].message_type = "text"

====
